---- MODULE Spec2Model ----
(***************************************************************************)
(* Model of cmuqiskit/backend.py: the Backend class, its constructor, its  *)
(* three static factory methods and its __repr__.                          *)
(*                                                                         *)
(* Python values are encoded as follows.                                   *)
(*   - a str is a TLA+ string;                                             *)
(*   - Union[int, None] is a set of integers: None is {} and the integer n *)
(*     is {n}, written Some(n);                                            *)
(*   - a dict or an object's attribute dictionary is a function whose      *)
(*     domain is the set of keys present;                                  *)
(*   - an object of the external library is an entry of the sequence       *)
(*     `handles`; its identity is its index, and a reference to it is that *)
(*     index.                                                              *)
(***************************************************************************)
EXTENDS Integers, Sequences, FiniteSets, TLC

\* number of constructor calls explored
MaxCalls == 2
\* integer seeds range over -1 .. MaxSeed
MaxSeed == 1

None == {}

Some(n) == {n}

Providers == {"simulator", "ibm_xxx"}

Executors == {"sampler", "estimator"}

Seeds == {None} \cup {Some(n) : n \in (0 - 1)..MaxSeed}

\* the attributes __init__ sets on self
ConfigAttrs == {"provider", "executor", "transpiler_seed", "simulator_seed"}

HandleAttrs == {"_provider", "_executor", "_transpiler"}

VARIABLES
    pc,        \* position of the (single-threaded) caller / constructor
    args,      \* arguments of the current or last constructor call
    self,      \* attribute dictionary of the object under construction
    exc,       \* exception the last call raised (NoExc if none)
    result,    \* value of the last call expression: object id, 0 if none
    heap,      \* Backend objects the caller holds, by object id
    argsOf,    \* for each object of heap, the arguments that built it
    handles,   \* every external-library object instantiated so far
    base,      \* Len(handles) when the current or last call started
    out,       \* last __repr__ taken: object id and text
    ncalls     \* number of constructor calls started

vars == <<pc, args, self, exc, result, heap, argsOf, handles, base, out, ncalls>>

----------------------------------------------------------------------------
(* Python helpers *)

EmptyDict == [k \in {} |-> 0]

SetAttr(d, k, v) == [a \in DOMAIN d \cup {k} |-> IF a = k THEN v ELSE d[a]]

\* str() / f-string formatting of an Union[int, None] value
str(v) == IF v = None THEN "None" ELSE ToString(CHOOSE n \in v : TRUE)

NoExc == [type |-> "", msg |-> ""]

ValueError(msg) == [type |-> "ValueError", msg |-> msg]

AssertionError(msg) == [type |-> "AssertionError", msg |-> msg]

\* outcome of a factory: normal return of a reference, world possibly grown
Returned(world, ref) == [exc |-> NoExc, ret |-> ref, world |-> world]

\* outcome of a factory: an exception, nothing returned
Raised(world, e) == [exc |-> e, ret |-> 0, world |-> world]

\* instantiating an external-library object allocates a fresh one
Instantiate(world, obj) == Returned(Append(world, obj), Len(world) + 1)

----------------------------------------------------------------------------
(* The external library, as far as the code configures it *)

_FakeProvider(world) == Instantiate(world, [cls |-> "FakeQuebec"])

_QuantumSampler(world, mode, options) ==
    Instantiate(world, [cls |-> "SamplerV2", mode |-> mode, options |-> options])

_generate_preset_pass_manager(world, seed_transpiler, backend) ==
    Instantiate(world, [cls |-> "StagedPassManager",
                        seed_transpiler |-> seed_transpiler,
                        optimization_level |-> 3,
                        backend |-> backend,
                        layout_method |-> "sabre",
                        routing_method |-> "sabre",
                        translation_method |-> "translator",
                        scheduling_method |-> "asap",
                        approximation_degree |-> 10,   \* 1.0, in tenths
                        unitary_synthesis_method |-> "default"])

----------------------------------------------------------------------------
(* The static factory methods *)

\* mutant: every provider name is accepted
_new_provider_any(world, provider) == _FakeProvider(world)

\* mutant: the fake provider is a cached singleton
_new_provider_cached(world, provider) ==
    IF provider = "simulator"
    THEN IF \E h \in 1..Len(world) : world[h].cls = "FakeQuebec"
         THEN Returned(world, CHOOSE h \in 1..Len(world) : world[h].cls = "FakeQuebec")
         ELSE _FakeProvider(world)
    ELSE Raised(world, ValueError("Provider " \o provider \o " is not supported"))

_new_provider(world, provider) ==
    IF provider = "simulator"
    THEN _FakeProvider(world)
    ELSE Raised(world, ValueError("Provider " \o provider \o " is not supported"))

\* mutant: every executor name is accepted
_new_executor_any(world, provider, executor, seed) ==
    LET options == [simulator |->
                       IF seed # None
                       THEN SetAttr(EmptyDict, "seed_simulator", seed)
                       ELSE EmptyDict]
    IN  _QuantumSampler(world, provider, options)

\* mutant: `if seed:` in place of `if seed is not None:`
_new_executor_truthy(world, provider, executor, seed) ==
    LET options == [simulator |->
                       IF seed # None /\ seed # Some(0)
                       THEN SetAttr(EmptyDict, "seed_simulator", seed)
                       ELSE EmptyDict]
    IN  IF executor = "sampler"
        THEN _QuantumSampler(world, provider, options)
        ELSE Raised(world, ValueError("Method \"" \o executor \o "\" is not implemented"))

_new_executor(world, provider, executor, seed) ==
    LET options == [simulator |->
                       IF seed # None
                       THEN SetAttr(EmptyDict, "seed_simulator", seed)
                       ELSE EmptyDict]
    IN  IF executor = "sampler"
        THEN _QuantumSampler(world, provider, options)
        ELSE Raised(world, ValueError("Method \"" \o executor \o "\" is not implemented"))

\* mutant: `seed > 0` in place of `seed >= 0`
_new_transpiler_positive(world, provider, seed) ==
    IF seed = None \/ (\A n \in seed : n > 0)
    THEN _generate_preset_pass_manager(world, seed, provider)
    ELSE Raised(world, AssertionError("Transpiler seed must be non-negative"))

\* mutant: pass managers are memoised on the seed
_new_transpiler_memo(world, provider, seed) ==
    IF seed = None \/ (\A n \in seed : n >= 0)
    THEN IF \E h \in 1..Len(world) : world[h].cls = "StagedPassManager"
                                     /\ world[h].seed_transpiler = seed
         THEN Returned(world, CHOOSE h \in 1..Len(world) :
                                  world[h].cls = "StagedPassManager"
                                  /\ world[h].seed_transpiler = seed)
         ELSE _generate_preset_pass_manager(world, seed, provider)
    ELSE Raised(world, AssertionError("Transpiler seed must be non-negative"))

_new_transpiler(world, provider, seed) ==
    IF seed = None \/ (\A n \in seed : n >= 0)
    THEN _generate_preset_pass_manager(world, seed, provider)
    ELSE Raised(world, AssertionError("Transpiler seed must be non-negative"))

\* mutant: the two seeds are printed in each other's place
__repr__swapped(obj) ==
    "<Backend: provider=" \o obj.provider \o ", " \o
    "executor=" \o obj.executor \o ", " \o
    "transpiler_seed=" \o str(obj.simulator_seed) \o ", " \o
    "simulator_seed=" \o str(obj.transpiler_seed) \o ">"

__repr__(obj) ==
    "<Backend: provider=" \o obj.provider \o ", " \o
    "executor=" \o obj.executor \o ", " \o
    "transpiler_seed=" \o str(obj.transpiler_seed) \o ", " \o
    "simulator_seed=" \o str(obj.simulator_seed) \o ">"

----------------------------------------------------------------------------
(* The caller and the constructor, statement by statement *)

Resting == pc \in {"idle", "returned", "raised"}

Init ==
    /\ pc = "idle"
    /\ args = [provider |-> "simulator", executor |-> "sampler",
               transpiler_seed |-> None, simulator_seed |-> None]
    /\ self = EmptyDict
    /\ exc = NoExc
    /\ result = 0
    /\ heap = <<>>
    /\ argsOf = <<>>
    /\ handles = <<>>
    /\ base = 0
    /\ out = [obj |-> 0, text |-> ""]
    /\ ncalls = 0

\* mutant: an exception leaves the half-built object with the caller
Propagate_leak(e) ==
    /\ pc' = "raised"
    /\ exc' = e
    /\ result' = Len(heap) + 1
    /\ heap' = Append(heap, self)
    /\ argsOf' = Append(argsOf, args)
    /\ self' = EmptyDict

\* an exception leaves __init__: the call expression has no value and the
\* object under construction is dropped with the frame
Propagate(e) ==
    /\ pc' = "raised"
    /\ exc' = e
    /\ result' = 0
    /\ self' = EmptyDict
    /\ UNCHANGED <<heap, argsOf>>

\* mutant: the seed assertion is made first, on entry
Call_eager(provider, executor, transpiler_seed, simulator_seed) ==
    /\ Resting
    /\ ncalls < MaxCalls
    /\ ncalls' = ncalls + 1
    /\ args' = [provider |-> provider, executor |-> executor,
                transpiler_seed |-> transpiler_seed,
                simulator_seed |-> simulator_seed]
    /\ base' = Len(handles)
    /\ IF transpiler_seed = None \/ (\A n \in transpiler_seed : n >= 0)
       THEN /\ self' = EmptyDict
            /\ exc' = NoExc
            /\ result' = 0
            /\ pc' = "L44"
            /\ UNCHANGED <<heap, argsOf>>
       ELSE Propagate(AssertionError("Transpiler seed must be non-negative"))
    /\ UNCHANGED <<handles, out>>

\* Backend(provider, executor, transpiler_seed, simulator_seed): a new,
\* empty object is allocated and __init__ is entered
Call(provider, executor, transpiler_seed, simulator_seed) ==
    /\ Resting
    /\ ncalls < MaxCalls
    /\ ncalls' = ncalls + 1
    /\ args' = [provider |-> provider, executor |-> executor,
                transpiler_seed |-> transpiler_seed,
                simulator_seed |-> simulator_seed]
    /\ self' = EmptyDict
    /\ exc' = NoExc
    /\ result' = 0
    /\ base' = Len(handles)
    /\ pc' = "L44"
    /\ UNCHANGED <<heap, argsOf, handles, out>>

\* self.provider = provider ... self.simulator_seed = simulator_seed
InitFields ==
    /\ pc = "L44"
    /\ self' = SetAttr(SetAttr(SetAttr(SetAttr(self,
                   "provider", args.provider),
                   "executor", args.executor),
                   "transpiler_seed", args.transpiler_seed),
                   "simulator_seed", args.simulator_seed)
    /\ pc' = "L49"
    /\ UNCHANGED <<args, exc, result, heap, argsOf, handles, base, out, ncalls>>

\* self._provider = Backend._new_provider(provider=provider)
InitProvider ==
    /\ pc = "L49"
    /\ LET r == _new_provider(handles, args.provider)
       IN  /\ handles' = r.world
           /\ IF r.exc = NoExc
              THEN /\ self' = SetAttr(self, "_provider", r.ret)
                   /\ pc' = "L50"
                   /\ UNCHANGED <<exc, result, heap, argsOf>>
              ELSE Propagate(r.exc)
    /\ UNCHANGED <<args, base, out, ncalls>>

\* self._executor = Backend._new_executor(provider=self._provider,
\*                                        executor=executor, seed=simulator_seed)
InitExecutor ==
    /\ pc = "L50"
    /\ LET r == _new_executor(handles, self._provider, args.executor,
                              args.simulator_seed)
       IN  /\ handles' = r.world
           /\ IF r.exc = NoExc
              THEN /\ self' = SetAttr(self, "_executor", r.ret)
                   /\ pc' = "L53"
                   /\ UNCHANGED <<exc, result, heap, argsOf>>
              ELSE Propagate(r.exc)
    /\ UNCHANGED <<args, base, out, ncalls>>

\* self._transpiler = Backend._new_transpiler(provider=self._provider,
\*                                            seed=transpiler_seed)
\* and, __init__ having reached its end, the object goes to the caller
InitTranspiler ==
    /\ pc = "L53"
    /\ LET r == _new_transpiler(handles, self._provider, args.transpiler_seed)
       IN  /\ handles' = r.world
           /\ IF r.exc = NoExc
              THEN /\ heap' = Append(heap, SetAttr(self, "_transpiler", r.ret))
                   /\ argsOf' = Append(argsOf, args)
                   /\ result' = Len(heap) + 1
                   /\ self' = EmptyDict
                   /\ pc' = "returned"
                   /\ UNCHANGED exc
              ELSE Propagate(r.exc)
    /\ UNCHANGED <<args, base, out, ncalls>>

\* mutant: taking the representation normalises the stored seed
Repr_normalising(o) ==
    /\ Resting
    /\ o \in 1..Len(heap)
    /\ out' = [obj |-> o, text |-> __repr__(heap[o])]
    /\ heap' = [heap EXCEPT ![o].simulator_seed = None]
    /\ UNCHANGED <<pc, args, self, exc, result, argsOf, handles, base, ncalls>>

\* repr(o) on an object the caller holds
Repr(o) ==
    /\ Resting
    /\ o \in 1..Len(heap)
    /\ out' = [obj |-> o, text |-> __repr__(heap[o])]
    /\ UNCHANGED <<pc, args, self, exc, result, heap, argsOf, handles, base, ncalls>>

Next ==
    \/ \E p \in Providers, e \in Executors, ts \in Seeds, ss \in Seeds :
          Call(p, e, ts, ss)
    \/ InitFields
    \/ InitProvider
    \/ InitExecutor
    \/ InitTranspiler
    \/ \E o \in 1..MaxCalls : Repr(o)

Spec == Init /\ [][Next]_vars

TypeOK ==
    /\ pc \in {"idle", "L44", "L49", "L50", "L53", "returned", "raised"}
    /\ args \in [provider : Providers, executor : Executors,
                 transpiler_seed : Seeds, simulator_seed : Seeds]
    /\ ncalls \in 0..MaxCalls
    /\ base \in 0..Len(handles)
    /\ Len(heap) = Len(argsOf)
    /\ result \in 0..Len(heap)

----------------------------------------------------------------------------
(* Properties *)

ProviderError(provider) == ValueError("Provider " \o provider \o " is not supported")

ExecutorError(executor) == ValueError("Method \"" \o executor \o "\" is not implemented")

SeedError == AssertionError("Transpiler seed must be non-negative")

Negative(seed) == seed # None /\ \A n \in seed : n < 0

\* a constructor call has run to its end, by return or by exception
Finished == pc \in {"returned", "raised"}

\* number of external-library objects the current or last call instantiated
Instantiated == Len(handles) - base

Supported == args.provider = "simulator" /\ args.executor = "sampler"

\* C1: a call with a provider other than 'simulator' ends, whatever the
\* executor and the seeds, in the ValueError 'Provider <provider> is not
\* supported', and the caller gets no Backend object.
C1_UnsupportedProviderRaises ==
    (Finished /\ args.provider # "simulator") =>
        /\ pc = "raised"
        /\ exc = ProviderError(args.provider)
        /\ result = 0

C1_Witness ==
    /\ pc = "raised"
    /\ args.provider = "ibm_xxx"
    /\ args.executor = "estimator"
    /\ Negative(args.transpiler_seed)
    /\ Len(heap) = 1

\* C2 as stated: a call with an executor other than 'sampler' ends in the
\* executor's ValueError whatever the provider and the seeds.
C2_Original ==
    (Finished /\ args.executor # "sampler") =>
        /\ pc = "raised"
        /\ exc = ExecutorError(args.executor)

\* C2 as amended: a call with provider 'simulator' and an executor other
\* than 'sampler' ends, whatever the seeds, in the ValueError 'Method
\* "<executor>" is not implemented', and the caller gets no Backend object.
C2_UnsupportedExecutorRaises ==
    (Finished /\ args.provider = "simulator" /\ args.executor # "sampler") =>
        /\ pc = "raised"
        /\ exc = ExecutorError(args.executor)
        /\ result = 0

C2_Witness ==
    /\ pc = "raised"
    /\ args.provider = "simulator"
    /\ args.executor = "estimator"
    /\ Negative(args.transpiler_seed)
    /\ exc.type = "ValueError"

\* C3: with provider 'simulator' and executor 'sampler' a call ends in an
\* AssertionError exactly when transpiler_seed is a negative integer, and
\* otherwise (None, 0, positive) returns an object; simulator_seed plays no
\* part.
C3_AssertionIffNegativeSeed ==
    (Finished /\ Supported) =>
        /\ (pc = "raised" /\ exc = SeedError) <=> Negative(args.transpiler_seed)
        /\ (pc = "returned" /\ exc = NoExc /\ result # 0)
               <=> ~Negative(args.transpiler_seed)

C3_Witness ==
    /\ pc = "raised"
    /\ Supported
    /\ exc.type = "AssertionError"
    /\ args.transpiler_seed = Some(0 - 1)
    /\ args.simulator_seed = Some(0 - 1)
    /\ \E o \in 1..Len(heap) : argsOf[o].transpiler_seed = Some(0)

C5_NoPartialObject ==
    pc = "raised" =>
        /\ result = 0
        /\ self = EmptyDict
        /\ \A o \in 1..Len(heap) : DOMAIN heap[o] = ConfigAttrs \cup HandleAttrs

C5_Witness ==
    /\ pc = "raised"
    /\ exc.type = "AssertionError"
    /\ Instantiated = 2
    /\ Len(heap) = 1

\* C6 as stated: every call, failed ones included, instantiates at least
\* three external-library objects.
C6_Original == Finished => Instantiated >= 3

\* C6 as amended: every call that succeeds instantiates at least three
\* external-library objects: a provider, an executor and a transpiler.
C6_SuccessInstantiatesThree ==
    pc = "returned" =>
        /\ Instantiated >= 3
        /\ handles[base + 1].cls = "FakeQuebec"
        /\ handles[base + 2].cls = "SamplerV2"
        /\ handles[base + 3].cls = "StagedPassManager"

C6_Witness ==
    /\ pc = "returned"
    /\ ncalls = 2
    /\ Len(heap) = 2
    /\ Len(handles) = 6

\* the objects the caller holds, and the external objects they refer to,
\* are left as they are by a step
Frozen ==
    \A o \in 1..Len(heap) :
        /\ o <= Len(heap')
        /\ heap'[o] = heap[o]
        /\ argsOf'[o] = argsOf[o]
        /\ \A k \in HandleAttrs :
               /\ heap[o][k] <= Len(handles')
               /\ handles'[heap[o][k]] = handles[heap[o][k]]

\* the configuration fields are the arguments, the handles are ones the
\* object's own construction instantiated
AsConstructed ==
    \A o \in 1..Len(heap) :
        /\ \A k \in ConfigAttrs : heap[o][k] = argsOf[o][k]
        /\ handles[heap[o]._provider].cls = "FakeQuebec"
        /\ handles[heap[o]._executor].cls = "SamplerV2"
        /\ handles[heap[o]._transpiler].cls = "StagedPassManager"

\* C7: once an object is constructed, no step (a __repr__, another
\* construction, a failed construction) changes its three handles or its
\* four fields, and the fields hold the constructor's arguments.
C7_HandlesNeverChange == [][Frozen]_vars /\ []AsConstructed

C7_Witness ==
    /\ out.obj = 1
    /\ Len(heap) = 2
    /\ argsOf[1].simulator_seed = Some(1)
    /\ argsOf[2].simulator_seed = Some(0)

ExecutorOf(o) == handles[heap[o]._executor]

TranspilerOf(o) == handles[heap[o]._transpiler]

\* C8: the executor's simulator options hold seed_simulator = simulator_seed
\* exactly when simulator_seed is not None (0 is passed), the transpiler is
\* given seed_transpiler = transpiler_seed, and two objects built from the
\* same seeds have equal executor options and equal transpiler settings.
C8_SeedPassThrough ==
    /\ \A o \in 1..Len(heap) :
           LET sim == ExecutorOf(o).options.simulator
               a == argsOf[o]
           IN  /\ ("seed_simulator" \in DOMAIN sim) <=> (a.simulator_seed # None)
               /\ a.simulator_seed # None => sim["seed_simulator"] = a.simulator_seed
               /\ DOMAIN sim \subseteq {"seed_simulator"}
               /\ TranspilerOf(o).seed_transpiler = a.transpiler_seed
    /\ \A o1, o2 \in 1..Len(heap) :
           (/\ argsOf[o1].transpiler_seed = argsOf[o2].transpiler_seed
            /\ argsOf[o1].simulator_seed = argsOf[o2].simulator_seed)
           => /\ ExecutorOf(o1).options = ExecutorOf(o2).options
              /\ [TranspilerOf(o1) EXCEPT !.backend = 0]
                     = [TranspilerOf(o2) EXCEPT !.backend = 0]

C8_Witness ==
    /\ Len(heap) = 2
    /\ argsOf[1] = argsOf[2]
    /\ argsOf[1].simulator_seed = Some(0)
    /\ argsOf[1].transpiler_seed = Some(1)
    /\ ExecutorOf(2).options.simulator["seed_simulator"] = Some(0)

\* C9: no two objects share a provider, executor or transpiler handle, and
\* inside one object the executor and the transpiler are built on that
\* object's own _provider.
C9_NoSharedHandles ==
    /\ \A o1, o2 \in 1..Len(heap) :
           o1 # o2 =>
               {heap[o1][k] : k \in HandleAttrs}
                   \cap {heap[o2][k] : k \in HandleAttrs} = {}
    /\ \A o \in 1..Len(heap) :
           /\ Cardinality({heap[o][k] : k \in HandleAttrs}) = 3
           /\ ExecutorOf(o).mode = heap[o]._provider
           /\ TranspilerOf(o).backend = heap[o]._provider

C9_Witness ==
    /\ Len(heap) = 2
    /\ argsOf[1] = argsOf[2]
    /\ argsOf[1].transpiler_seed = None
    /\ heap[1]._provider # heap[2]._provider

\* C10: the checks run in the order provider, executor, transpiler seed and
\* the first failure ends the call: an unsupported provider gives the
\* provider error before anything is instantiated, else an unsupported
\* executor gives the executor error after the provider alone is
\* instantiated, and the seed assertion is raised only when both are
\* supported, after the provider and the executor are instantiated.
C10_CheckOrder ==
    pc = "raised" =>
        /\ args.provider # "simulator" =>
               exc = ProviderError(args.provider) /\ Instantiated = 0
        /\ (args.provider = "simulator" /\ args.executor # "sampler") =>
               /\ exc = ExecutorError(args.executor)
               /\ Instantiated = 1
               /\ handles[base + 1].cls = "FakeQuebec"
        /\ exc.type = "AssertionError" =>
               /\ Supported
               /\ Instantiated = 2
               /\ handles[base + 1].cls = "FakeQuebec"
               /\ handles[base + 2].cls = "SamplerV2"
               /\ handles[base + 2].mode = base + 1

C10_Witness ==
    /\ pc = "raised"
    /\ args.provider = "ibm_xxx"
    /\ args.executor = "estimator"
    /\ Negative(args.transpiler_seed)
    /\ exc.type = "ValueError"
    /\ Instantiated = 0
    /\ ncalls = 2

====
